---- MODULE Spec2Model ----
(***************************************************************************)
(* A model of arrafmousa/InformationEntropy: src/main.py and src/glove.py. *)
(*                                                                         *)
(* The program scores each paragraph of a document: get_connections turns  *)
(* a paragraph into the differences of the embeddings of adjacent tokens,  *)
(* process_text gathers those of every long paragraph into one corpus,     *)
(* find_k_closest_avg gives each difference the mean distance to its k     *)
(* nearest corpus members and information_of_statement turns the means of  *)
(* a paragraph into an entropy deficit.                                    *)
(*                                                                         *)
(* Numbers.  Embedding components are integers.  A distance is a fixed     *)
(* point number with Scale units per 1 (the square root rounded down to a  *)
(* unit, where the program rounds to a float).  A mean is a rational       *)
(* [n |-> numerator, d |-> denominator].  An entropy is a real of the form *)
(*     (sum over primes p of c[p] * log2(p)) / d                           *)
(* kept exactly as the record [c |-> {<<p, c[p]>> : c[p] # 0}, d |-> d]    *)
(* in lowest terms, so that two entropies are equal as reals exactly when  *)
(* their records are equal.  The field nan marks the float "not a number". *)
(*                                                                         *)
(* Specifications.  Spec is the program run (module level code of          *)
(* main.py) with a table of the dimension of the fallback vector.          *)
(* SpecConn, SpecDensity and SpecInfo apply one function of main.py to     *)
(* arguments drawn from bounded sets.  SpecTables and SpecConnTables are   *)
(* Spec and SpecConn with tables of other and of mixed vector lengths,     *)
(* where numpy's subtraction can raise.                                    *)
(***************************************************************************)
EXTENDS Integers, Sequences, FiniteSets, TLC

VARIABLES
    glove_embeddings, \* the module global of glove.py:22, the loaded table
    pc,            \* position of the module level code of main.py
    document,      \* document.split("\n"): the paragraphs, each a string
    idx,           \* number of paragraphs the running loop has consumed
    connections_,  \* process_text's local accumulator
    connections,   \* the module global assigned at main.py:275
    printed,       \* the (idx, information) pairs printed at main.py:305
    densityCalls,  \* calls of find_k_closest_avg made so far
    scorerCalls,   \* calls of information_of_statement made so far
    contributed,   \* the idx of the paragraphs whose connections were added
    scored,        \* per printed pair, the list tokenized_probabilities gave
    gc,            \* one call of get_connections: arguments and result
    fk,            \* one call of find_k_closest_avg: arguments and result
    ios            \* one call of information_of_statement: arguments and result

vars == <<glove_embeddings, pc, document, idx, connections_, connections, printed,
          densityCalls, scorerCalls, contributed, scored, gc, fk, ios>>

pipelineVars == <<glove_embeddings, pc, document, idx, connections_, connections,
                  printed, densityCalls, scorerCalls, contributed, scored>>

----------------------------------------------------------------------------
(* Bounds of the model and constants of the program.                       *)

MaxTokens == 4        \* longest token sequence given to get_connections alone
MaxCorpus == 3        \* largest corpus given to find_k_closest_avg alone
MaxCoord == 1         \* largest component of a vector given to it alone
MaxPairs == 3         \* longest sequence given to information_of_statement alone
MaxWeight == 3        \* largest weight given to it alone
MaxParagraphs == 2    \* most paragraphs of a document

MinParagraphLen == 5  \* main.py:266 has 100; scaled down, still above NeighbourK + 1
NeighbourK == 3       \* the k of main.py:299
FallbackDim == 2      \* glove.py:31 has 50, the dimension of glove.6B.50d; scaled down
FallbackMax == 600    \* glove.py:31: random.randint(0, 600), both ends included
Scale == 10           \* units per 1 of a distance (np.linalg.norm rounds to a float)

----------------------------------------------------------------------------
(* Arithmetic.                                                             *)

Abs(x) == IF x < 0 THEN -x ELSE x

Max(a, b) == IF a >= b THEN a ELSE b

Min(a, b) == IF a <= b THEN a ELSE b

RECURSIVE GCD(_, _)
GCD(a, b) == IF b = 0 THEN Abs(a) ELSE GCD(b, a % b)

RECURSIVE SetGCD(_)
SetGCD(S) ==
    IF S = {} THEN 0
    ELSE LET x == CHOOSE y \in S : TRUE IN GCD(x, SetGCD(S \ {x}))

RECURSIVE SeqSum(_)
SeqSum(s) == IF s = <<>> THEN 0 ELSE s[1] + SeqSum(Tail(s))

RECURSIVE Pow(_, _)
Pow(b, e) == IF e = 0 THEN 1 ELSE b * Pow(b, e - 1)

\* floor of the square root of n >= 0, by bisection between lo and hi
RECURSIVE SqrtBetween(_, _, _)
SqrtBetween(n, lo, hi) ==
    IF lo >= hi THEN lo
    ELSE LET mid == (lo + hi + 1) \div 2
         IN  IF mid * mid <= n THEN SqrtBetween(n, mid, hi)
             ELSE SqrtBetween(n, lo, mid - 1)

ISqrt(n) == SqrtBetween(n, 0, Min(n, 46340))

Range(s) == {s[j] : j \in DOMAIN s}

----------------------------------------------------------------------------
(* glove.py: the embedding table and the lookup.                           *)

\* The table load_glove_file builds is data of the run: whatever the file
\* at glove_path holds, one vector per line, each as long as its line.
\* GloveTable is a three word table of dimension FallbackDim, the table of
\* the runs of Spec; "z" is a word outside it.
GloveTable ==
    "a" :> <<0, 0>> @@ "b" :> <<1, 0>> @@ "c" :> <<0, 1>>

\* a table of vectors of one component, and one of a component too many
GloveTableNarrow ==
    "a" :> <<0>> @@ "b" :> <<1>> @@ "c" :> <<2>>

GloveTableWide ==
    "a" :> <<0, 0, 0>> @@ "b" :> <<1, 0, 0>> @@ "c" :> <<0, 1, 0>>

\* a file whose lines are not of one length
GloveTableRagged ==
    "a" :> <<0>> @@ "b" :> <<1>> @@ "c" :> <<0, 1, 0>>

GloveTables == {GloveTable, GloveTableNarrow, GloveTableWide, GloveTableRagged}

Words == {"a", "b", "c", "z"}

\* The values random.randint(0, 600) is taken to return in the model.
RandValues == {0, FallbackMax}

\* get_glove_embedding(word); r is what random.randint returns if it is called.
get_glove_embedding(word, r) ==
    IF word \in DOMAIN glove_embeddings
    THEN glove_embeddings[word]
    ELSE [j \in 1..FallbackDim |-> r]

\* numpy's rule for u - v on one dimensional arrays: the lengths are equal
\* or one of them is 1 (that array is stretched); else ValueError is raised
Broadcastable(u, v) == Len(u) = Len(v) \/ Len(u) = 1 \/ Len(v) = 1

\* numpy's u - v for Broadcastable(u, v)
VecSub(u, v) ==
    [j \in 1..Max(Len(u), Len(v)) |->
        u[IF Len(u) = 1 THEN 1 ELSE j] - v[IF Len(v) = 1 THEN 1 ELSE j]]

----------------------------------------------------------------------------
(* main.py: get_connections.                                               *)

\* zip(paragraph, paragraph[1:]): the pairs of adjacent tokens, in order
ZipPairs(paragraph) ==
    [p \in 1..Max(Len(paragraph) - 1, 0) |-> <<paragraph[p], paragraph[p + 1]>>]

ZipPairsWithSelf(paragraph) ==
    [p \in 1..Len(paragraph) |-> <<paragraph[p], paragraph[p]>>]

\* The lookups get_connections makes: pair p looks up its first word in slot
\* 2p - 1 and its second in slot 2p.  MissingSlots are those that draw.
LookupWord(paragraph, s) == paragraph[(s + 1) \div 2 + (IF s % 2 = 0 THEN 1 ELSE 0)]

MissingSlots(paragraph) ==
    {s \in 1..(2 * Max(Len(paragraph) - 1, 0)) :
        LookupWord(paragraph, s) \notin DOMAIN glove_embeddings}

\* The draws a call of get_connections can see: one value per missing slot
\* (0 stands in the slots that do not draw).
DrawsFor(paragraph) ==
    {[s \in 1..(2 * Max(Len(paragraph) - 1, 0)) |->
        IF s \in MissingSlots(paragraph) THEN g[s] ELSE 0] :
            g \in [MissingSlots(paragraph) -> RandValues]}

\* the draws of a call that draws nothing, or draws 0 every time
NoDraws(paragraph) == [s \in 1..(2 * Max(Len(paragraph) - 1, 0)) |-> 0]

\* main.py:258 raises ValueError: the embeddings of some pair of adjacent
\* tokens cannot be subtracted (their lengths do not depend on the draws)
get_connections_raises(paragraph) ==
    \E p \in 1..Max(Len(paragraph) - 1, 0) :
        ~Broadcastable(get_glove_embedding(paragraph[p], 0),
                       get_glove_embedding(paragraph[p + 1], 0))

get_connections_swapped(paragraph, draws) ==
    LET pairs == ZipPairs(paragraph)
    IN  [p \in 1..Len(pairs) |->
            VecSub(get_glove_embedding(pairs[p][2], draws[2 * p]),
                   get_glove_embedding(pairs[p][1], draws[2 * p - 1]))]

get_connections_selfzip(paragraph, draws) ==
    LET pairs == ZipPairsWithSelf(paragraph)
    IN  [p \in 1..Len(pairs) |->
            VecSub(get_glove_embedding(pairs[p][1], 0),
                   get_glove_embedding(pairs[p][2], 0))]

\* the return inside the loop: only the first pair gives a connection
get_connections_first_only(paragraph, draws) ==
    LET pairs == ZipPairs(paragraph)
    IN  [p \in 1..Min(Len(pairs), 1) |->
            VecSub(get_glove_embedding(pairs[p][1], draws[2 * p - 1]),
                   get_glove_embedding(pairs[p][2], draws[2 * p]))]

get_connections(paragraph, draws) ==
    LET pairs == ZipPairs(paragraph)
    IN  [p \in 1..Len(pairs) |->
            VecSub(get_glove_embedding(pairs[p][1], draws[2 * p - 1]),
                   get_glove_embedding(pairs[p][2], draws[2 * p]))]

----------------------------------------------------------------------------
(* Floats: rationals for distances and their means, exact logarithms for   *)
(* entropies.                                                              *)

Rat(n, d) == [nan |-> FALSE, n |-> n, d |-> d]

RNaN == [nan |-> TRUE, n |-> 0, d |-> 1]

RatEq(x, y) == x.nan = y.nan /\ (~x.nan => x.n * y.d = y.n * x.d)

\* how often the prime p divides m >= 1
RECURSIVE Mult(_, _)
Mult(m, p) == IF m % p = 0 THEN 1 + Mult(m \div p, p) ELSE 0

\* the least prime factor of m >= 2
LeastPrime(m) ==
    LET ds == {p \in 2..ISqrt(m) : m % p = 0}
    IN  IF ds = {} THEN m ELSE CHOOSE p \in ds : \A q \in ds : p <= q

\* the prime factorisation of m >= 1 as {<<prime, exponent>>}
RECURSIVE Factorize(_)
Factorize(m) ==
    IF m = 1 THEN {}
    ELSE LET p == LeastPrime(m)
         IN  {<<p, Mult(m, p)>>} \cup Factorize(m \div Pow(p, Mult(m, p)))

\* the coefficient of the prime p in a set of <<prime, coefficient>>
Coef(F, p) == IF \E x \in F : x[1] = p THEN (CHOOSE x \in F : x[1] = p)[2] ELSE 0

PrimesIn(F) == {x[1] : x \in F}

LNaN == [nan |-> TRUE, c |-> {}, d |-> 1]

LZero == [nan |-> FALSE, c |-> {}, d |-> 1]

\* (sum of e[p] * log2(p) over p in P) / d, in lowest terms
Canon(P, e, d) ==
    LET g  == SetGCD({d} \cup {Abs(e[p]) : p \in P})
        cs == {<<p, e[p] \div g>> : p \in {q \in P : e[q] # 0}}
    IN  [nan |-> FALSE, c |-> cs, d |-> IF cs = {} THEN 1 ELSE d \div g]

\* x - y on floats
LSub(x, y) ==
    IF x.nan \/ y.nan THEN LNaN
    ELSE LET P == PrimesIn(x.c) \cup PrimesIn(y.c)
             e == [p \in P |-> Coef(x.c, p) * y.d - Coef(y.c, p) * x.d]
         IN  Canon(P, e, x.d * y.d)

RECURSIVE PowProduct(_)
PowProduct(F) ==
    IF F = {} THEN 1
    ELSE LET x == CHOOSE y \in F : TRUE IN Pow(x[1], x[2]) * PowProduct(F \ {x})

\* the sign of x (-1, 0, 1): x.d * x = log2(product of p^c[p])
LSign(x) ==
    LET up   == PowProduct({y \in x.c : y[2] > 0})
        down == PowProduct({<<y[1], -y[2]>> : y \in {z \in x.c : z[2] < 0}})
    IN  IF up > down THEN 1 ELSE IF up < down THEN -1 ELSE 0

----------------------------------------------------------------------------
(* main.py: find_k_closest_avg.                                            *)

RECURSIVE SumSq(_)
SumSq(v) == IF v = <<>> THEN 0 ELSE v[1] * v[1] + SumSq(Tail(v))

\* np.linalg.norm(v), in units of 1 / Scale
Norm(v) == ISqrt(SumSq(v) * Scale * Scale)

\* main.py:287 raises ValueError: some member of the corpus cannot be
\* subtracted from the target
find_k_closest_avg_raises(arrays, target) ==
    \E i \in DOMAIN arrays : ~Broadcastable(arrays[i], target)

\* the target forgotten in the subtraction: distances from the origin
DistancesFromOrigin(arrays, target) ==
    [i \in 1..Len(arrays) |-> Norm(arrays[i])]

\* main.py:287
Distances(arrays, target) ==
    [i \in 1..Len(arrays) |-> Norm(VecSub(arrays[i], target))]

\* the slice [:k] forgotten: every distance is kept
SliceLenAll(n, k) == n

\* len(s[:k]) for a sequence s of length n: Python's slice, k of any sign
SliceLen(n, k) == IF k >= 0 THEN Min(k, n) ELSE Max(n + k, 0)

\* no sort at all: the first m indices in corpus order
ArgsortPrefixesUnsorted(distances, m) == {[j \in 1..m |-> j]}

\* The values np.argsort(distances)[:m] can take.  np.argsort's default sort
\* is not stable: among equal distances any order can come out.  A prefix
\* is extended by any index not yet taken whose distance is least.
RECURSIVE ArgsortPrefixes(_, _)
ArgsortPrefixes(distances, m) ==
    IF m = 0 THEN {<<>>}
    ELSE UNION {
            LET rest == DOMAIN distances \ Range(pre)
            IN  {Append(pre, i) : i \in {j \in rest :
                    \A h \in rest : distances[j] <= distances[h]}} :
            pre \in ArgsortPrefixes(distances, m - 1)}

\* the argsort forgotten: the first distances as they stand
KIndicesInPlace(distances, k) == {[j \in 1..SliceLen(Len(distances), k) |-> j]}

\* main.py:290: the values of k_indices
KIndices(distances, k) == ArgsortPrefixes(distances, SliceLen(Len(distances), k))

\* np.average(xs) of a list of distances: nan for the empty list
Average(xs) == IF Len(xs) = 0 THEN RNaN ELSE Rat(SeqSum(xs), Len(xs) * Scale)

\* main.py:293
AverageAt(distances, k_indices) ==
    Average([j \in 1..Len(k_indices) |-> distances[k_indices[j]]])

\* the values find_k_closest_avg(arrays, target, k) can return
find_k_closest_avg(arrays, target, k) ==
    LET distances == Distances(arrays, target)
    IN  {AverageAt(distances, k_indices) : k_indices \in KIndices(distances, k)}

----------------------------------------------------------------------------
(* main.py: information_of_statement, and scipy.stats.entropy(pk, base=2). *)

RECURSIVE SeqLCM(_)
SeqLCM(ds) ==
    IF ds = <<>> THEN 1
    ELSE LET l == SeqLCM(Tail(ds)) IN (ds[1] * l) \div GCD(ds[1], l)

\* scipy.stats.entropy(pk, base=2): pk / sum(pk), then the sum of entr(p) =
\* -p log p (0 at p = 0), then the division by log(2).
\*   - the empty pk sums to 0.0 and divides to the empty array: entropy 0.0;
\*   - pk summing to 0 divides 0 / 0 = nan in every place: entropy nan.
entropy(pk) ==
    IF Len(pk) = 0 THEN LZero
    ELSE IF \E i \in DOMAIN pk : pk[i].nan THEN LNaN
    ELSE LET l  == SeqLCM([i \in DOMAIN pk |-> pk[i].d])
             w  == [i \in DOMAIN pk |-> pk[i].n * (l \div pk[i].d)]
             g  == SetGCD(Range(w))
             u  == [i \in DOMAIN pk |-> IF g = 0 THEN 0 ELSE w[i] \div g]
             U  == SeqSum(u)
         IN  IF U = 0 THEN LNaN
             ELSE LET fU == Factorize(U)
                      fu == [i \in DOMAIN pk |->
                                IF u[i] = 0 THEN {} ELSE Factorize(u[i])]
                      P  == PrimesIn(fU) \cup UNION {PrimesIn(fu[i]) : i \in DOMAIN pk}
                      e  == [p \in P |->
                                U * Coef(fU, p)
                                - SeqSum([i \in DOMAIN pk |-> u[i] * Coef(fu[i], p)])]
                  IN  Canon(P, e, U)

\* log2(m) for an integer m >= 1
Log2(m) == [nan |-> FALSE, c |-> Factorize(m), d |-> 1]

\* the distribution handed to entropy taken as it is, not normalised:
\* every item weighs -log2 of the probability passed in
information_of_statement_unnormalised(doc, equal_vocab_probability) ==
    LET ent     == entropy([i \in DOMAIN doc |-> doc[i][2]])
        max_ent == LSub(Log2(equal_vocab_probability.d), Log2(equal_vocab_probability.n))
    IN  LSub(max_ent, ent)

\* main.py:35-37; doc is a sequence of <<vector, weight>>
information_of_statement(doc, equal_vocab_probability) ==
    LET ent     == entropy([i \in DOMAIN doc |-> doc[i][2]])
        max_ent == entropy([x \in DOMAIN doc |-> equal_vocab_probability])
    IN  LSub(max_ent, ent)

\* main.py:299
EqualProbabilityOf(paragraph) == Rat(1, Len(paragraph))

\* main.py:296-299: the values tokenized_probabilities(paragraph, connections)
\* can return, given the draws of its get_connections
Product(S) == {w \in [DOMAIN S -> UNION Range(S)] : \A i \in DOMAIN S : w[i] \in S[i]}

tokenized_probabilities(paragraph, corpus, draws) ==
    LET paragraph_connections == get_connections(paragraph, draws)
        values == [i \in DOMAIN paragraph_connections |->
                     find_k_closest_avg(corpus, paragraph_connections[i], NeighbourK)]
    IN  {[i \in DOMAIN paragraph_connections |-> <<paragraph_connections[i], w[i]>>] :
            w \in Product(values)}

\* main.py:297-299 raises: get_connections does, or find_k_closest_avg does
\* for one of the connections
tokenized_probabilities_raises(paragraph, corpus) ==
    \/ get_connections_raises(paragraph)
    \/ LET paragraph_connections == get_connections(paragraph, NoDraws(paragraph))
       IN  \E i \in DOMAIN paragraph_connections :
              find_k_closest_avg_raises(corpus, paragraph_connections[i])

\* the calls of find_k_closest_avg made by a call of tokenized_probabilities
\* that raises, the raising one included
DensityCallsUntilRaise(paragraph, corpus) ==
    IF get_connections_raises(paragraph) THEN 0
    ELSE LET c == get_connections(paragraph, NoDraws(paragraph))
             bad == {i \in DOMAIN c : find_k_closest_avg_raises(corpus, c[i])}
         IN  CHOOSE i \in bad : \A h \in bad : i <= h

----------------------------------------------------------------------------
(* main.py, module level: process_text (main.py:263-275) and the scoring   *)
(* loop (main.py:302-305).                                                 *)

\* the comparison written <= instead of <
IsSmallOrAtLimit(paragraph) == Len(paragraph) <= MinParagraphLen

\* the comparison written the wrong way round
IsSmallInverted(paragraph) == Len(paragraph) > MinParagraphLen

\* main.py:266 and main.py:303
IsSmall(paragraph) == Len(paragraph) < MinParagraphLen

\* an assignment in place of extend
ExtendOverwrite(acc, new) == new

\* the new connections put in front of the old
ExtendPrepend(acc, new) == new \o acc

\* main.py:271: connections_.extend(new)
Extend(acc, new) == acc \o new

\* The paragraphs a document is made of: the empty line, two short ones,
\* one of exactly MinParagraphLen characters, one with a character that has
\* no embedding, one longer.
ParagraphPool ==
    { <<>>,
      <<"a", "b">>,
      <<"a", "b", "c", "a">>,
      <<"a", "b", "c", "a", "b">>,
      <<"a", "z", "c", "c", "b">>,
      <<"c", "a", "a", "b", "c", "b">> }

\* document.split("\n") has at least one element
Documents == UNION {[1..n -> ParagraphPool] : n \in 1..MaxParagraphs}

IdleGc == [paragraph |-> <<>>, draws |-> <<>>, result |-> <<>>, status |-> "idle"]

IdleFk == [arrays |-> <<>>, target |-> <<>>, k |-> 0, k_indices |-> <<>>,
           result |-> RNaN, status |-> "idle"]

IdleIos == [doc |-> <<>>, equal_vocab_probability |-> RNaN, result |-> LNaN,
            status |-> "idle"]

\* main.py's module level code is not run
PipelineIdle ==
    /\ pc = "Off"
    /\ document = <<>>
    /\ idx = 0
    /\ connections_ = <<>>
    /\ connections = <<>>
    /\ printed = <<>>
    /\ densityCalls = 0
    /\ scorerCalls = 0
    /\ contributed = <<>>
    /\ scored = <<>>

PipelineOff ==
    /\ glove_embeddings = GloveTable
    /\ PipelineIdle

\* The state before main.py:275 runs, but for the table and the document.
PipelineStart ==
    /\ pc = "Init"
    /\ idx = 0
    /\ connections_ = <<>>
    /\ connections = <<>>
    /\ printed = <<>>
    /\ densityCalls = 0
    /\ scorerCalls = 0
    /\ contributed = <<>>
    /\ scored = <<>>
    /\ gc = IdleGc
    /\ fk = IdleFk
    /\ ios = IdleIos

\* The state before main.py:275 runs: the table is loaded, the document is set.
Init ==
    /\ glove_embeddings = GloveTable
    /\ document \in Documents
    /\ PipelineStart

\* main.py:275 calls process_text; main.py:264
StartProcessText ==
    /\ pc = "Init"
    /\ pc' = "BuildingCorpus"
    /\ connections_' = <<>>
    /\ idx' = 0
    /\ UNCHANGED <<glove_embeddings, document, connections, printed, densityCalls,
                   scorerCalls, contributed, scored, gc, fk, ios>>

\* main.py:265-270: a small paragraph is passed over
ProcessSkip ==
    /\ pc = "BuildingCorpus"
    /\ idx < Len(document)
    /\ IsSmall(document[idx + 1])
    /\ idx' = idx + 1
    /\ UNCHANGED <<glove_embeddings, pc, document, connections_, connections, printed,
                   densityCalls, scorerCalls, contributed, scored, gc, fk, ios>>

\* the corpus built from the paragraph short of its last character
ProcessExtendDropsLast ==
    /\ pc = "BuildingCorpus"
    /\ idx < Len(document)
    /\ ~IsSmall(document[idx + 1])
    /\ LET paragraph == SubSeq(document[idx + 1], 1, Len(document[idx + 1]) - 1)
       IN  /\ ~get_connections_raises(paragraph)
           /\ \E draws \in DrawsFor(paragraph) :
                 connections_' = Extend(connections_, get_connections(paragraph, draws))
    /\ contributed' = Append(contributed, idx)
    /\ idx' = idx + 1
    /\ UNCHANGED <<glove_embeddings, pc, document, connections, printed, densityCalls,
                   scorerCalls, scored, gc, fk, ios>>

\* main.py:265-271: the connections of a paragraph are added
ProcessExtend ==
    /\ pc = "BuildingCorpus"
    /\ idx < Len(document)
    /\ ~IsSmall(document[idx + 1])
    /\ ~get_connections_raises(document[idx + 1])
    /\ \E draws \in DrawsFor(document[idx + 1]) :
          connections_' = Extend(connections_, get_connections(document[idx + 1], draws))
    /\ contributed' = Append(contributed, idx)
    /\ idx' = idx + 1
    /\ UNCHANGED <<glove_embeddings, pc, document, connections, printed, densityCalls,
                   scorerCalls, scored, gc, fk, ios>>

\* main.py:271: get_connections raises; nothing catches it, the run ends
ProcessRaise ==
    /\ pc = "BuildingCorpus"
    /\ idx < Len(document)
    /\ ~IsSmall(document[idx + 1])
    /\ get_connections_raises(document[idx + 1])
    /\ pc' = "Failed"
    /\ UNCHANGED <<glove_embeddings, document, idx, connections_, connections, printed,
                   densityCalls, scorerCalls, contributed, scored, gc, fk, ios>>

\* main.py:272 and main.py:275: process_text returns, connections is bound
ProcessReturn ==
    /\ pc = "BuildingCorpus"
    /\ idx = Len(document)
    /\ connections' = connections_
    /\ pc' = "Scoring"
    /\ idx' = 0
    /\ UNCHANGED <<glove_embeddings, document, connections_, printed, densityCalls,
                   scorerCalls, contributed, scored, gc, fk, ios>>

\* main.py:302-304
ScoreSkip ==
    /\ pc = "Scoring"
    /\ idx < Len(document)
    /\ IsSmall(document[idx + 1])
    /\ idx' = idx + 1
    /\ UNCHANGED <<glove_embeddings, pc, document, connections_, connections, printed,
                   densityCalls, scorerCalls, contributed, scored, gc, fk, ios>>

\* the paragraph's connections left behind in the corpus
ScoreParagraphGrowsCorpus ==
    /\ pc = "Scoring"
    /\ idx < Len(document)
    /\ ~IsSmall(document[idx + 1])
    /\ ~tokenized_probabilities_raises(document[idx + 1], connections)
    /\ \E draws \in DrawsFor(document[idx + 1]) :
         \E probs \in tokenized_probabilities(document[idx + 1], connections, draws) :
            /\ printed' = Append(printed,
                  <<idx, information_of_statement(probs,
                                                  EqualProbabilityOf(document[idx + 1]))>>)
            /\ scored' = Append(scored, probs)
            /\ densityCalls' = densityCalls + Len(probs)
            /\ connections' = connections \o [i \in DOMAIN probs |-> probs[i][1]]
    /\ scorerCalls' = scorerCalls + 1
    /\ idx' = idx + 1
    /\ UNCHANGED <<glove_embeddings, pc, document, connections_, contributed,
                   gc, fk, ios>>

\* main.py:302-305: idx is enumerate's index of the paragraph, from 0
ScoreParagraph ==
    /\ pc = "Scoring"
    /\ idx < Len(document)
    /\ ~IsSmall(document[idx + 1])
    /\ ~tokenized_probabilities_raises(document[idx + 1], connections)
    /\ \E draws \in DrawsFor(document[idx + 1]) :
         \E probs \in tokenized_probabilities(document[idx + 1], connections, draws) :
            /\ printed' = Append(printed,
                  <<idx, information_of_statement(probs,
                                                  EqualProbabilityOf(document[idx + 1]))>>)
            /\ scored' = Append(scored, probs)
            /\ densityCalls' = densityCalls + Len(probs)
    /\ scorerCalls' = scorerCalls + 1
    /\ idx' = idx + 1
    /\ UNCHANGED <<glove_embeddings, pc, document, connections_, connections,
                   contributed, gc, fk, ios>>

\* the exception swallowed: the paragraph is passed over, the loop goes on
ScoreRaiseSkips ==
    /\ pc = "Scoring"
    /\ idx < Len(document)
    /\ ~IsSmall(document[idx + 1])
    /\ tokenized_probabilities_raises(document[idx + 1], connections)
    /\ densityCalls' = densityCalls +
                          DensityCallsUntilRaise(document[idx + 1], connections)
    /\ idx' = idx + 1
    /\ UNCHANGED <<glove_embeddings, pc, document, connections_, connections, printed,
                   scorerCalls, contributed, scored, gc, fk, ios>>

\* main.py:305: tokenized_probabilities raises (information_of_statement
\* does not: entropy returns 0.0 or nan where it has nothing to compute);
\* nothing catches it, nothing is printed for the paragraph, the run ends
ScoreRaise ==
    /\ pc = "Scoring"
    /\ idx < Len(document)
    /\ ~IsSmall(document[idx + 1])
    /\ tokenized_probabilities_raises(document[idx + 1], connections)
    /\ densityCalls' = densityCalls +
                          DensityCallsUntilRaise(document[idx + 1], connections)
    /\ pc' = "Failed"
    /\ UNCHANGED <<glove_embeddings, document, idx, connections_, connections, printed,
                   scorerCalls, contributed, scored, gc, fk, ios>>

\* the loop of main.py:302 is exhausted
Finish ==
    /\ pc = "Scoring"
    /\ idx = Len(document)
    /\ pc' = "Done"
    /\ UNCHANGED <<glove_embeddings, document, idx, connections_, connections, printed,
                   densityCalls, scorerCalls, contributed, scored, gc, fk, ios>>

\* The steps of a run with GloveTable, where nothing raises.
Next ==
    \/ StartProcessText
    \/ ProcessSkip
    \/ ProcessExtend
    \/ ProcessReturn
    \/ ScoreSkip
    \/ ScoreParagraph
    \/ Finish

Spec == Init /\ [][Next]_vars

----------------------------------------------------------------------------
(* The program run with any of GloveTables.                                *)

\* paragraphs whose embeddings differ in length under some of the tables
TableParagraphs ==
    [ short |-> <<"a", "z">>,
      plain |-> <<"a", "b", "a", "b", "a">>,
      mixed |-> <<"c", "c", "a", "z", "z">>,
      known |-> <<"c", "a", "a", "b", "c", "b">> ]

TableDocuments ==
    { <<TableParagraphs.plain>>,
      <<TableParagraphs.short, TableParagraphs.mixed>>,
      <<TableParagraphs.plain, TableParagraphs.mixed>>,
      <<TableParagraphs.known, TableParagraphs.plain>>,
      <<TableParagraphs.plain, TableParagraphs.short, TableParagraphs.mixed,
        TableParagraphs.plain>> }

InitTables ==
    /\ glove_embeddings \in GloveTables
    /\ document \in TableDocuments
    /\ PipelineStart

NextTables ==
    \/ Next
    \/ ProcessRaise
    \/ ScoreRaise

SpecTables == InitTables /\ [][NextTables]_vars

----------------------------------------------------------------------------
(* get_connections applied to every token sequence of up to MaxTokens.     *)

TokenSeqs == UNION {[1..n -> Words] : n \in 0..MaxTokens}

InitConn ==
    /\ PipelineOff
    /\ gc \in {[paragraph |-> p, draws |-> <<>>, result |-> <<>>, status |-> "pending"] :
                 p \in TokenSeqs}
    /\ fk = IdleFk
    /\ ios = IdleIos

CallGetConnections ==
    /\ gc.status = "pending"
    /\ ~get_connections_raises(gc.paragraph)
    /\ \E draws \in DrawsFor(gc.paragraph) :
          gc' = [gc EXCEPT !.draws = draws,
                           !.result = get_connections(gc.paragraph, draws),
                           !.status = "returned"]
    /\ UNCHANGED <<pipelineVars, fk, ios>>

NextConn == CallGetConnections

SpecConn == InitConn /\ [][NextConn]_vars

----------------------------------------------------------------------------
(* get_connections applied to the same token sequences with any of         *)
(* GloveTables loaded.                                                     *)

InitConnTables ==
    /\ glove_embeddings \in GloveTables
    /\ PipelineIdle
    /\ gc \in {[paragraph |-> p, draws |-> <<>>, result |-> <<>>, status |-> "pending"] :
                 p \in TokenSeqs}
    /\ fk = IdleFk
    /\ ios = IdleIos

\* main.py:258 raises ValueError, which get_connections lets through
RaiseGetConnections ==
    /\ gc.status = "pending"
    /\ get_connections_raises(gc.paragraph)
    /\ gc' = [gc EXCEPT !.status = "raised"]
    /\ UNCHANGED <<pipelineVars, fk, ios>>

NextConnTables ==
    \/ CallGetConnections
    \/ RaiseGetConnections

SpecConnTables == InitConnTables /\ [][NextConnTables]_vars

----------------------------------------------------------------------------
(* find_k_closest_avg applied to every corpus of up to MaxCorpus vectors   *)
(* with components in 0..MaxCoord, to a target at the origin and one at a  *)
(* corner, and to every k from -1 to MaxCorpus + 2.                        *)

Vectors == [1..FallbackDim -> 0..MaxCoord]

Targets ==
    { [j \in 1..FallbackDim |-> 0],
      [j \in 1..FallbackDim |-> IF j = 1 THEN MaxCoord ELSE 0] }

Corpora == UNION {[1..n -> Vectors] : n \in 0..MaxCorpus}

InitDensity ==
    /\ PipelineOff
    /\ gc = IdleGc
    /\ fk \in {[arrays |-> a, target |-> t, k |-> k, k_indices |-> <<>>,
                result |-> RNaN, status |-> "pending"] :
                 a \in Corpora, t \in Targets, k \in (-1)..(MaxCorpus + 2)}
    /\ ios = IdleIos

CallFindKClosestAvg ==
    /\ fk.status = "pending"
    /\ LET distances == Distances(fk.arrays, fk.target)
       IN  \E k_indices \in KIndices(distances, fk.k) :
              fk' = [fk EXCEPT !.k_indices = k_indices,
                               !.result = AverageAt(distances, k_indices),
                               !.status = "returned"]
    /\ UNCHANGED <<pipelineVars, gc, ios>>

NextDensity == CallFindKClosestAvg

SpecDensity == InitDensity /\ [][NextDensity]_vars

----------------------------------------------------------------------------
(* information_of_statement applied to every sequence of up to MaxPairs    *)
(* pairs with weights in 0..MaxWeight and to several equal probabilities.  *)

Weights == {Rat(w, 1) : w \in 0..MaxWeight}

PairSeqs == UNION {[1..n -> {<<<<0, 0>>, w>> : w \in Weights}] : n \in 0..MaxPairs}

EqualProbs == {Rat(1, 1), Rat(1, 2), Rat(2, 3), Rat(1, MinParagraphLen)}

InitInfo ==
    /\ PipelineOff
    /\ gc = IdleGc
    /\ fk = IdleFk
    /\ ios \in {[doc |-> d, equal_vocab_probability |-> q, result |-> LNaN,
                 status |-> "pending"] : d \in PairSeqs, q \in EqualProbs}

CallInformationOfStatement ==
    /\ ios.status = "pending"
    /\ ios' = [ios EXCEPT
                 !.result = information_of_statement(ios.doc, ios.equal_vocab_probability),
                 !.status = "returned"]
    /\ UNCHANGED <<pipelineVars, gc, fk>>

NextInfo == CallInformationOfStatement

SpecInfo == InitInfo /\ [][NextInfo]_vars

----------------------------------------------------------------------------
(* Properties of get_connections, under SpecConn.                          *)

\* C1: for a token sequence of length n >= 1, get_connections returns
\* exactly max(n - 1, 0) transition vectors; one token gives the empty list.
TransitionLengthLaw ==
    (gc.status = "returned" /\ Len(gc.paragraph) >= 1) =>
        /\ Len(gc.result) = Max(Len(gc.paragraph) - 1, 0)
        /\ (Len(gc.paragraph) = 1 => gc.result = <<>>)

TransitionLengthWitness ==
    /\ gc.status = "returned"
    /\ Len(gc.paragraph) = MaxTokens
    /\ Len(gc.result) = MaxTokens - 1

\* the vectors a lookup of word can give: the table's, or a fallback
EmbeddingsOf(word) ==
    IF word \in DOMAIN glove_embeddings
    THEN {glove_embeddings[word]}
    ELSE {[j \in 1..FallbackDim |-> r] : r \in 0..FallbackMax}

\* e is a member of EmbeddingsOf(word)
IsEmbeddingOf(word, e) ==
    IF word \in DOMAIN glove_embeddings
    THEN e = glove_embeddings[word]
    ELSE /\ DOMAIN e = 1..FallbackDim
         /\ \A j \in DOMAIN e : e[j] = e[1] /\ 0 <= e[j] /\ e[j] <= FallbackMax

\* C2: element i of the result is embedding(tokens[i]) - embedding(tokens[i+1])
\* component by component, in the order of the tokens; a, b, c with
\* a = [0,0], b = [1,0], c = [0,1] gives [[-1,0],[1,-1]].
TransitionIsDifference ==
    gc.status = "returned" =>
        /\ \A i \in 1..(Len(gc.paragraph) - 1) :
              \E e1 \in EmbeddingsOf(gc.paragraph[i]) :
                 /\ DOMAIN gc.result[i] = DOMAIN e1
                 /\ IsEmbeddingOf(gc.paragraph[i + 1],
                                  [j \in DOMAIN e1 |-> e1[j] - gc.result[i][j]])
        /\ (gc.paragraph = <<"a", "b", "c">> => gc.result = << <<-1, 0>>, <<1, -1>> >>)

TransitionIsDifferenceWitness ==
    /\ gc.status = "returned"
    /\ gc.paragraph = <<"a", "b", "c">>
    /\ gc.result = << <<-1, 0>>, <<1, -1>> >>

IsZeroVector(v) == \A j \in DOMAIN v : v[j] = 0

\* C19: where two adjacent tokens have identical embeddings, in particular
\* where a token is followed by itself, be it in the table or not, the
\* transition vector is all zero.
SameTokenGivesZero ==
    gc.status = "returned" =>
        \A i \in 1..(Len(gc.paragraph) - 1) :
            (\/ gc.paragraph[i] = gc.paragraph[i + 1]
             \/ get_glove_embedding(gc.paragraph[i], gc.draws[2 * i - 1])
                   = get_glove_embedding(gc.paragraph[i + 1], gc.draws[2 * i]))
               => IsZeroVector(gc.result[i])

----------------------------------------------------------------------------
(* Properties of get_connections, under SpecConnTables.                    *)

\* the lengths of the vectors of the loaded table
TableDims == {Len(glove_embeddings[w]) : w \in DOMAIN glove_embeddings}

Called == gc.status \in {"returned", "raised"}

\* C13: the lookup never fails; it gives the table's vector for a token of
\* the table and a fallback vector for any other; either has exactly D
\* components, D the dimension of the table's vectors, and so has every
\* transition vector: get_connections returns, with vectors of D components.
LookupHasTableDimension ==
    (Called /\ Cardinality(TableDims) = 1) =>
        /\ \A j \in DOMAIN gc.paragraph : \A r \in RandValues :
              LET e == get_glove_embedding(gc.paragraph[j], r)
              IN  /\ gc.paragraph[j] \in DOMAIN glove_embeddings =>
                        e = glove_embeddings[gc.paragraph[j]]
                  /\ Len(e) \in TableDims
        /\ gc.status = "returned"
        /\ \A i \in DOMAIN gc.result : Len(gc.result[i]) \in TableDims

\* the embeddings of the tokens p and p + 1 of the call differ in length
DifferentLengthsAt(p) ==
    Len(get_glove_embedding(gc.paragraph[p], 0))
        # Len(get_glove_embedding(gc.paragraph[p + 1], 0))

\* C18: subtracting two vectors of different length always fails, and the
\* failure ends the call: get_connections returns no result when the
\* embeddings of two adjacent tokens differ in length.
DifferentLengthsFail ==
    (Called /\ \E p \in 1..(Len(gc.paragraph) - 1) : DifferentLengthsAt(p)) =>
        gc.status = "raised"

----------------------------------------------------------------------------
(* Properties of find_k_closest_avg, under SpecDensity.                    *)

\* the Euclidean distance of u and v in units of 1 / Scale
EuclidUnits(u, v) ==
    LET sq == [j \in DOMAIN u |-> (u[j] - v[j]) * (u[j] - v[j])]
    IN  ISqrt(SeqSum(sq) * Scale * Scale)

\* the number of corpus members nearer to target than x, and no farther
NearerThan(arrays, target, x) ==
    Cardinality({i \in DOMAIN arrays : EuclidUnits(arrays[i], target) < x})

NoFartherThan(arrays, target, x) ==
    Cardinality({i \in DOMAIN arrays : EuclidUnits(arrays[i], target) <= x})

\* the j-th smallest distance from target to the corpus, j in 1..Len(arrays)
NthSmallest(arrays, target, j) ==
    CHOOSE x \in {EuclidUnits(arrays[i], target) : i \in DOMAIN arrays} :
        NearerThan(arrays, target, x) < j /\ j <= NoFartherThan(arrays, target, x)

\* the mean of the k smallest distances, 1 <= k <= Len(arrays)
MeanOfKSmallest(arrays, target, k) ==
    Rat(SeqSum([j \in 1..k |-> NthSmallest(arrays, target, j)]), k * Scale)

ValidK == 1 <= fk.k /\ fk.k <= Len(fk.arrays)

InvalidKFails ==
    /\ (fk.status \in {"returned", "raised"} /\ ~ValidK) => fk.status = "raised"
    /\ fk.status = "returned" => Len(fk.k_indices) = fk.k

TargetInCorpus == \E i \in DOMAIN fk.arrays : fk.arrays[i] = fk.target

\* C17: if the target is a member of the corpus and 1 <= k <= |corpus|, the
\* smallest of the k averaged distances is 0: a selected member is at
\* distance 0 from the target, and for k = 1 the result is 0.
MemberTargetHasZeroDistance ==
    (fk.status = "returned" /\ ValidK /\ TargetInCorpus) =>
        /\ \E j \in DOMAIN fk.k_indices :
              EuclidUnits(fk.arrays[fk.k_indices[j]], fk.target) = 0
        /\ (fk.k = 1 => RatEq(fk.result, Rat(0, 1)))

MemberTargetWitness ==
    /\ fk.status = "returned"
    /\ fk.k = 2
    /\ Len(fk.arrays) = 3
    /\ fk.target # [j \in 1..FallbackDim |-> 0]
    /\ fk.arrays[3] = fk.target
    /\ fk.arrays[1] # fk.target
    /\ fk.arrays[2] # fk.target
    /\ 3 \in Range(fk.k_indices)
    /\ fk.result.n > 0

\* corpus member i comes before member h in the order by (distance, position)
BeforeByDistanceThenPosition(i, h) ==
    LET di == EuclidUnits(fk.arrays[i], fk.target)
        dh == EuclidUnits(fk.arrays[h], fk.target)
    IN  di < dh \/ (di = dh /\ i < h)

Selected == Range(fk.k_indices)

Permuted(arrays, perm) == [i \in DOMAIN arrays |-> arrays[perm[i]]]

\* C23: for 1 <= k <= |corpus| the value find_k_closest_avg returns is the
\* same for every order of the corpus and for every way the ties among
\* equal distances fall: it depends on the multiset of the corpus only.
DensityIgnoresCorpusOrder ==
    (fk.status = "returned" /\ ValidK) =>
        \A perm \in Permutations(DOMAIN fk.arrays) :
            \A v \in find_k_closest_avg(Permuted(fk.arrays, perm), fk.target, fk.k) :
                RatEq(v, fk.result)

\* three members at three distances, not in ascending order, two selected
DensityIgnoresCorpusOrderWitness ==
    /\ fk.status = "returned"
    /\ fk.k = 2
    /\ Len(fk.arrays) = 3
    /\ EuclidUnits(fk.arrays[1], fk.target) > EuclidUnits(fk.arrays[2], fk.target)
    /\ EuclidUnits(fk.arrays[2], fk.target) > EuclidUnits(fk.arrays[3], fk.target)
    /\ fk.k_indices = <<3, 2>>
    /\ fk.result.n > 0

----------------------------------------------------------------------------
(* Properties of information_of_statement, under SpecInfo.                 *)

AllEqualWeights(doc) == \A i, j \in DOMAIN doc : RatEq(doc[i][2], doc[j][2])

AllZeroWeights(doc) == \A i \in DOMAIN doc : doc[i][2].n = 0

\* C5: for a non-empty sequence of non-negative density proxies the score
\* is >= 0, and it is 0 exactly when all the proxies are equal.
ScoreNonNegative ==
    (ios.status = "returned" /\ Len(ios.doc) >= 1) =>
        /\ ~ios.result.nan
        /\ LSign(ios.result) >= 0
        /\ (ios.result = LZero <=> AllEqualWeights(ios.doc))

\* What the program does: C5 for the sequences whose proxies are not all 0.
ScoreNonNegativeOffZero ==
    (ios.status = "returned" /\ Len(ios.doc) >= 1 /\ ~AllZeroWeights(ios.doc)) =>
        /\ ~ios.result.nan
        /\ LSign(ios.result) >= 0
        /\ (ios.result = LZero <=> AllEqualWeights(ios.doc))

\* C6: when every density proxy of a paragraph is 0, the scorer returns the
\* score 0; it neither fails nor returns an undefined value.
AllZeroScoresZero ==
    (ios.status \in {"returned", "raised"} /\ Len(ios.doc) >= 1 /\ AllZeroWeights(ios.doc)) =>
        /\ ios.status = "returned"
        /\ ios.result = LZero

\* C7: the scorer called with the empty sequence fails with EmptyInput and
\* returns no score.
EmptyInputFails ==
    (ios.status \in {"returned", "raised"} /\ Len(ios.doc) = 0) => ios.status = "raised"

\* C15: for a non-empty sequence of density proxies the score is the same
\* for every positive equal_vocab_probability: the baseline entropy is
\* log2(n) for n items whatever value is passed, so the score is
\* log2(n) - entropy(proxies).
EqualProbabilityIrrelevant ==
    (ios.status = "returned" /\ Len(ios.doc) >= 1) =>
        /\ \A q \in EqualProbs :
              /\ information_of_statement(ios.doc, q) = ios.result
              /\ entropy([x \in DOMAIN ios.doc |-> q]) = Log2(Len(ios.doc))
        /\ ios.result = LSub(Log2(Len(ios.doc)),
                             entropy([i \in DOMAIN ios.doc |-> ios.doc[i][2]]))

EqualProbabilityIrrelevantWitness ==
    /\ ios.status = "returned"
    /\ Len(ios.doc) = 3
    /\ ios.equal_vocab_probability = Rat(2, 3)
    /\ ~ios.result.nan
    /\ ios.result # LZero
    /\ information_of_statement(ios.doc, Rat(1, MinParagraphLen)) = ios.result

----------------------------------------------------------------------------
(* Properties of the run, under Spec.                                      *)

Qualifies(paragraph) == Len(paragraph) >= MinParagraphLen

\* the positions, from 0, of the paragraphs of doc that qualify, ascending
RECURSIVE QualifyingFrom(_, _)
QualifyingFrom(doc, p) ==
    IF p >= Len(doc) THEN <<>>
    ELSE (IF Qualifies(doc[p + 1]) THEN <<p>> ELSE <<>>) \o QualifyingFrom(doc, p + 1)

PrintedIndices == [i \in DOMAIN printed |-> printed[i][1]]

\* C8: a completed run prints exactly one (index, score) pair for each
\* paragraph of length >= MinParagraphLen and none for a shorter one, in
\* document order, the index being the paragraph's position in the whole
\* document: the indices are strictly increasing.
OnePairPerQualifyingParagraph ==
    /\ pc = "Done" => PrintedIndices = QualifyingFrom(document, 0)
    /\ \A i, j \in DOMAIN printed : i < j => printed[i][1] < printed[j][1]
    /\ \A i \in DOMAIN printed : Qualifies(document[printed[i][1] + 1])

OnePairWitness ==
    /\ pc = "Done"
    /\ Len(document) = 2
    /\ ~Qualifies(document[1])
    /\ Qualifies(document[2])
    /\ PrintedIndices = <<1>>

NoneQualifies == \A p \in DOMAIN document : ~Qualifies(document[p])

\* C9: if no paragraph qualifies, the run reaches Done with an empty corpus
\* and an empty result, without a call of the density estimator or of the
\* scorer and without a failure: short of Done it always has a next step.
EmptyRunIsEmpty ==
    (pc \in {"Init", "BuildingCorpus", "Scoring", "Done"} /\ NoneQualifies) =>
        /\ connections_ = <<>>
        /\ connections = <<>>
        /\ printed = <<>>
        /\ densityCalls = 0
        /\ scorerCalls = 0
        /\ pc # "Done" => ENABLED Next

EmptyRunWitness ==
    /\ pc = "Done"
    /\ NoneQualifies
    /\ \E p \in DOMAIN document : Len(document[p]) >= 2
    /\ connections = <<>>
    /\ printed = <<>>

\* the density estimator fails for the paragraph the scoring loop is at
ScoringFailsHere ==
    /\ pc = "Scoring"
    /\ idx < Len(document)
    /\ Qualifies(document[idx + 1])
    /\ tokenized_probabilities_raises(document[idx + 1], connections)

\* the run has ended in failure in the scoring loop
FailedInScoring == pc = "Failed" /\ scorerCalls + densityCalls > 0

FatalStep ==
    /\ ScoringFailsHere =>
          /\ pc' = "Failed"
          /\ idx' = idx
          /\ printed' = printed
          /\ scorerCalls' = scorerCalls
    /\ pc = "Failed" => pc' = "Failed" /\ printed' = printed

FailedAtParagraph ==
    /\ ScoringFailsHere => ENABLED ScoreRaise
    /\ pc = "Failed" =>
          /\ ~ENABLED NextTables
          /\ idx < Len(document)
          /\ Qualifies(document[idx + 1])
          /\ \A i \in DOMAIN printed : printed[i][1] < idx
    /\ FailedInScoring => Len(printed) = Len(QualifyingFrom(SubSeq(document, 1, idx), 0))

\* C11: if the density estimator (the scorer has no failure of its own)
\* fails for a qualifying paragraph, the run ends in failure at that
\* paragraph: every earlier qualifying paragraph has its pair, the failing
\* one has none, no later paragraph is scored and no further step is taken.
FailureIsFatal == [](FailedAtParagraph) /\ [][FatalStep]_vars

\* the first paragraph is scored, the third fails, the fourth qualifies
FailureIsFatalWitness ==
    /\ FailedInScoring
    /\ Len(document) = 4
    /\ idx = 2
    /\ PrintedIndices = <<0>>
    /\ Qualifies(document[4])
    /\ densityCalls = Len(document[1])

\* the corpus of the run of doc in which every draw gives 0
RECURSIVE CorpusWithNoDraws(_)
CorpusWithNoDraws(doc) ==
    IF doc = <<>> THEN <<>>
    ELSE (IF Qualifies(doc[1]) THEN get_connections(doc[1], NoDraws(doc[1])) ELSE <<>>)
         \o CorpusWithNoDraws(Tail(doc))

\* what the run of doc in which every draw gives 0 prints from position p on
RECURSIVE PrintedWithNoDraws(_, _)
PrintedWithNoDraws(doc, p) ==
    IF p >= Len(doc) THEN <<>>
    ELSE (IF Qualifies(doc[p + 1])
          THEN LET probs == CHOOSE w \in tokenized_probabilities(
                               doc[p + 1], CorpusWithNoDraws(doc), NoDraws(doc[p + 1])) : TRUE
               IN  << <<p, information_of_statement(probs, EqualProbabilityOf(doc[p + 1]))>> >>
          ELSE <<>>)
         \o PrintedWithNoDraws(doc, p + 1)

\* C12: with the table and the document fixed, every run prints the same
\* sequence of (index, score) pairs, also when the document has tokens that
\* are not in the table: every completed run prints what the run prints in
\* which every draw gives 0.
RunsPrintTheSame ==
    pc = "Done" => printed = PrintedWithNoDraws(document, 0)

\* the sum of the k least of the numbers d[i], i in S
RECURSIVE SumOfLeast(_, _, _)
SumOfLeast(d, S, k) ==
    IF k = 0 THEN 0
    ELSE LET least == CHOOSE i \in S : \A h \in S : d[i] <= d[h]
         IN  d[least] + SumOfLeast(d, S \ {least}, k - 1)

\* the mean of the k least distances from target to the corpus
MeanOfLeast(corpus, target, k) ==
    LET d == [i \in DOMAIN corpus |-> EuclidUnits(corpus[i], target)]
    IN  IF Len(d) < k THEN RNaN ELSE Rat(SumOfLeast(d, DOMAIN d, k), k * Scale)

\* the transition vectors the i-th scored paragraph was scored from
TransitionsScored(i) == [j \in DOMAIN scored[i] |-> scored[i][j][1]]

\* when the run is done, every printed score is what its paragraph's own
\* transition vectors and the corpus give, whatever was scored before and
\* after it: each weight is the mean of the NeighbourK least distances from
\* the transition vector to the corpus, and the score is that of the weights
ScoreIsOfOwnTransitions ==
    /\ Len(scored) = Len(printed)
    /\ pc = "Done" =>
          \A i \in DOMAIN printed :
             LET paragraph == document[printed[i][1] + 1]
             IN  /\ \E draws \in DrawsFor(paragraph) :
                       get_connections(paragraph, draws) = TransitionsScored(i)
                 /\ \A j \in DOMAIN scored[i] :
                       RatEq(scored[i][j][2],
                             MeanOfLeast(connections, scored[i][j][1], NeighbourK))
                 /\ printed[i][2] =
                       information_of_statement(scored[i], EqualProbabilityOf(paragraph))

\* scoring a paragraph changes nothing that scoring reads
ScoringReadsOnlyStep ==
    (printed' # printed \/ scored' # scored \/ scorerCalls' # scorerCalls) =>
        /\ connections' = connections
        /\ connections_' = connections_
        /\ document' = document
        /\ glove_embeddings' = glove_embeddings
        /\ SubSeq(printed', 1, Len(printed)) = printed
        /\ SubSeq(scored', 1, Len(scored)) = scored

CorpusPartOf(p) ==
    LET before == SeqSum([h \in 1..p |->
                     IF Qualifies(document[h]) THEN Len(document[h]) - 1 ELSE 0])
    IN  SubSeq(connections, before + 1, before + Len(document[p + 1]) - 1)

\* C20: once process_text has returned, the corpus is the transition
\* vectors of the paragraphs of length >= MinParagraphLen, one paragraph
\* after the other in document order, and nothing of a shorter paragraph;
\* its size is the sum of (tokens - 1) over the qualifying paragraphs; the
\* paragraphs that gave to the corpus are the paragraphs that are scored.
CorpusIsOfQualifyingParagraphs ==
    pc \in {"Scoring", "Done"} =>
        /\ Len(connections) =
              SeqSum([h \in DOMAIN document |->
                         IF Qualifies(document[h]) THEN Len(document[h]) - 1 ELSE 0])
        /\ \A p \in 0..(Len(document) - 1) :
              Qualifies(document[p + 1]) =>
                 \E draws \in DrawsFor(document[p + 1]) :
                    CorpusPartOf(p) = get_connections(document[p + 1], draws)
        /\ contributed = QualifyingFrom(document, 0)
        /\ \A i \in DOMAIN printed : \E j \in DOMAIN contributed :
              contributed[j] = printed[i][1]
        /\ pc = "Done" => PrintedIndices = contributed

CorpusIsOfQualifyingWitness ==
    /\ pc = "Done"
    /\ Len(document) = 2
    /\ Len(document[1]) = MinParagraphLen + 1
    /\ Len(document[2]) = MinParagraphLen
    /\ Len(connections) = 2 * MinParagraphLen - 1
    /\ contributed = <<0, 1>>
    /\ PrintedIndices = <<0, 1>>

\* a step of the scoring loop that calls the density estimator or the scorer
CallsMade ==
    densityCalls' # densityCalls \/ scorerCalls' # scorerCalls \/ scored' # scored

\* what the calls of such a step are given: k = NeighbourK and the corpus
\* for every density call, the list just appended to scored for the scorer
ValidCallsStep ==
    CallsMade =>
        /\ pc = "Scoring"
        /\ 1 <= NeighbourK
        /\ NeighbourK <= Len(connections)
        /\ Len(connections) >= MinParagraphLen - 1
        /\ scorerCalls' = scorerCalls + 1
        /\ Len(scored') = Len(scored) + 1
        /\ Len(scored'[Len(scored')]) = Len(document[idx + 1]) - 1
        /\ Len(scored'[Len(scored')]) >= MinParagraphLen - 1
        /\ densityCalls' = densityCalls + Len(scored'[Len(scored')])
        /\ \A j \in DOMAIN scored'[Len(scored')] : ~scored'[Len(scored')][j][2].nan

\* C21: in a run every density call has 1 <= k <= |corpus| and every scorer
\* call is given a non-empty list: a qualifying paragraph of L characters
\* gives L - 1 >= MinParagraphLen - 1 >= NeighbourK transition vectors to
\* the corpus and to its own scoring, so neither k out of range nor the
\* empty list occurs.
CallsAreValidInRun == [][ValidCallsStep]_vars

CallsAreValidWitness ==
    /\ pc = "Done"
    /\ Len(document) = 2
    /\ ~Qualifies(document[1])
    /\ Len(document[2]) = MinParagraphLen
    /\ Len(connections) = MinParagraphLen - 1
    /\ densityCalls = MinParagraphLen - 1
    /\ scorerCalls = 1
    /\ Len(scored[1]) = MinParagraphLen - 1

\* every token of the paragraph is in the table: its lookups draw nothing
AllInTable(paragraph) ==
    \A j \in DOMAIN paragraph : paragraph[j] \in DOMAIN glove_embeddings

\* s occurs in t as a run of adjacent elements
IsContiguousIn(s, t) ==
    \E off \in 0..(Len(t) - Len(s)) : SubSeq(t, off + 1, off + Len(s)) = s

\* the mean of distance 0 and the k - 1 least distances to the corpus
\* members other than the one at position m
MeanWithZeroNearest(corpus, target, m, k) ==
    LET d == [i \in DOMAIN corpus |-> EuclidUnits(corpus[i], target)]
    IN  Rat(SumOfLeast(d, DOMAIN d \ {m}, k - 1), k * Scale)

\* C22: where the embeddings of a paragraph are deterministic (all of its
\* tokens are in the table), the transition vectors it is scored from are a
\* run of adjacent members of the corpus, so each of them has a corpus
\* member at distance 0, and its density proxy is the mean of that 0 and
\* the NeighbourK - 1 next distances.
ScoredAreCorpusMembers ==
    pc = "Done" =>
        \A i \in DOMAIN printed :
            AllInTable(document[printed[i][1] + 1]) =>
                /\ IsContiguousIn(TransitionsScored(i), connections)
                /\ TransitionsScored(i) = CorpusPartOf(printed[i][1])
                /\ \A j \in DOMAIN scored[i] :
                      \E m \in DOMAIN connections :
                         /\ connections[m] = scored[i][j][1]
                         /\ EuclidUnits(connections[m], scored[i][j][1]) = 0
                         /\ RatEq(scored[i][j][2],
                                  MeanWithZeroNearest(connections, scored[i][j][1],
                                                      m, NeighbourK))

\* a paragraph of known tokens scored after one with a missing token
ScoredAreCorpusMembersWitness ==
    /\ pc = "Done"
    /\ Len(document) = 2
    /\ Len(printed) = 2
    /\ ~AllInTable(document[1])
    /\ AllInTable(document[2])
    /\ TransitionsScored(2) = CorpusPartOf(1)
    /\ \E j \in DOMAIN scored[2] : scored[2][j][2].n > 0

\* the number of transition vectors of the qualifying paragraphs of doc
RECURSIVE TotalTransitions(_)
TotalTransitions(doc) ==
    IF doc = <<>> THEN 0
    ELSE (IF Qualifies(doc[1]) THEN Len(doc[1]) - 1 ELSE 0) + TotalTransitions(Tail(doc))

PhaseSteps ==
    { <<"Init", "BuildingCorpus">>, <<"BuildingCorpus", "Scoring">>, <<"Scoring", "Done">> }

\* C10: the phases come in the order Init, BuildingCorpus, Scoring, Done;
\* the corpus is complete before the first density or score computation,
\* and from then until Done no step changes it.
CorpusFrozenStep ==
    /\ pc' # pc => <<pc, pc'>> \in PhaseSteps
    /\ (densityCalls' # densityCalls \/ scorerCalls' # scorerCalls \/ printed' # printed) =>
          /\ pc = "Scoring"
          /\ Len(connections) = TotalTransitions(document)
    /\ pc \in {"Scoring", "Done"} => connections' = connections

CorpusFrozenBeforeScoring == [][CorpusFrozenStep]_vars

CorpusFrozenWitness ==
    /\ pc = "Done"
    /\ Len(document) = 2
    /\ Len(printed) = 2
    /\ Len(connections) = TotalTransitions(document)
    /\ densityCalls = Len(connections)

====
